---- MODULE Spec2Model ----
(***************************************************************************)
(* Model of the brood program (programs/brood/src/lib.rs): the ledger of   *)
(* Agent accounts and the six instructions create_agent, fund_treasury,    *)
(* pay_for_service, deduct_costs, spawn and record_outcome.                *)
(*                                                                         *)
(* Every instruction is one atomic step: the account validation of its     *)
(* #[derive(Accounts)] struct runs first, then the handler body; a failure *)
(* anywhere (a constraint, a require!, a failed transfer, an arithmetic    *)
(* panic) aborts the transaction and no account is changed.                *)
(*                                                                         *)
(* Amounts are lamports.  The machine word u64 is modelled by a word of    *)
(* 30 bits (U64Modulus), wide enough for the two program constants and     *)
(* narrow enough for the model checker's integers; i64 likewise.  Whether  *)
(* an overflowing u64 operation panics or wraps is fixed by the build      *)
(* profile, which the source does not state: overflow_checks holds either. *)
(***************************************************************************)
EXTENDS Integers, Sequences, FiniteSets, TLC

\* ------------------------------------------------------------ constants

\* lib.rs:168-169
MIN_OPERATING_RESERVE == 10000000
MIN_SPAWN_SEED == 100000000

\* lib.rs:325, #[max_len(32)] on Agent.name; the name is also a PDA seed
MAX_NAME_LEN == 32

\* u64 (lib.rs:330-332): values 0 .. U64Modulus - 1
U64Modulus == 2^30
U64Max == U64Modulus - 1

\* i64 (lib.rs:336): values -I64Half .. I64Half - 1
I64Half == 2^29

\* ------------------------------------------------------------ bounds

\* number of committed (successful) instructions explored
MaxOps == 4
\* largest clock value
MaxClock == 1
\* lamports in existence outside the treasuries at the start
TotalSupply == 300000000

\* ------------------------------------------------------------ input sets

Owners == {"o1", "o2"}
LongName == "abcdefghijklmnopqrstuvwxyz0123456"
ShortNames == {"a", "b", "c"}
Names == ShortNames \cup {LongName}

\* The address of an agent account: the PDA of seeds ["agent", owner, name]
\* (lib.rs:204, lib.rs:277).
AgentPda(owner, name) == <<owner, name>>
Ids == {AgentPda(o, n) : o \in Owners, n \in ShortNames}

\* an address that holds no initialised Agent account
NoAgent == [initialised |-> FALSE]
\* no address (an instruction that names no agent)
NoId == <<>>

\* Option<Pubkey> (lib.rs:322)
None == <<>>
Some(p) == <<p>>

\* ------------------------------------------------------------ state

VARIABLES
    agents,          \* Ids -> Agent record, or NoAgent while the account does not exist
    held,            \* Ids -> lamports held by the treasury PDA of that agent
    supply,          \* lamports outside the treasuries
    now,             \* Clock::get()?.unix_timestamp
    overflow_checks, \* build profile: TRUE, u64 overflow panics; FALSE, it wraps
    nops,            \* instructions committed since the initial state
    last             \* the instruction of the last step and its result

vars == <<agents, held, supply, now, overflow_checks, nops, last>>

\* ------------------------------------------------------------ arithmetic

\* u64 addition and subtraction as the build computes them when they do not
\* panic: modulo the word size.
AddU64(a, b) == (a + b) % U64Modulus
SubU64(a, b) == (a - b + U64Modulus) % U64Modulus
AddOverflows(a, b) == a + b > U64Max
SubOverflows(a, b) == a < b

\* i64 addition, wrapped into -I64Half .. I64Half - 1
AddI64(a, b) == ((a + b + I64Half) % (2 * I64Half)) - I64Half
AddI64Overflows(a, b) == a + b > I64Half - 1 \/ a + b < -I64Half

\* i16::clamp(1, 100), lib.rs:192
Clamp(x, lo, hi) == IF x < lo THEN lo ELSE IF x > hi THEN hi ELSE x

\* u8 (lib.rs:114, lib.rs:345-348): values 0 .. U8Max
U8Max == 255
\* i16 (lib.rs:191-192): values -I16Half .. I16Half - 1
I16Half == 32768
\* `as i16` and i16 arithmetic that does not panic: the low 16 bits, signed
ToI16(x) == ((x + I16Half) % (2 * I16Half)) - I16Half
FitsI16(x) == -I16Half <= x /\ x <= I16Half - 1
\* `as u8`: the low 8 bits
ToU8(x) == x % (U8Max + 1)

\* ------------------------------------------------------------ mutation

\* lib.rs:191, the operands of the i16 subtraction and its result
mutation_of(rate, seed) == ToI16(ToI16(seed % (rate * 2 + 1)) - ToI16(rate))

\* lib.rs:191-192: a cast that loses bits or an i16 operation that overflows
mutate_value_overflows(value, rate, seed) ==
    \/ ~FitsI16(seed % (rate * 2 + 1))
    \/ ~FitsI16(ToI16(seed % (rate * 2 + 1)) - ToI16(rate))
    \/ ~FitsI16(ToI16(value) + mutation_of(rate, seed))

\* the mutated traits in the order of lib.rs:182-185
Traits == <<"risk_tolerance", "trade_frequency", "profit_target", "stop_loss">>

\* lib.rs:182-185: one of the four mutate_value calls overflows
mutate_params_overflows(parent, mutation_rate, seed) ==
    \E k \in 1 .. Len(Traits) :
        mutate_value_overflows(parent[Traits[k]], mutation_rate, AddU64(seed, k - 1))

\* faulty variant of mutate_value: the result is not clamped
mutate_value_unclamped(value, rate, seed) ==
    ToU8(ToI16(ToI16(value) + mutation_of(rate, seed)))

\* lib.rs:190-193
mutate_value(value, rate, seed) ==
    ToU8(Clamp(ToI16(ToI16(value) + mutation_of(rate, seed)), 1, 100))

\* lib.rs:173-188; seed is clock.unix_timestamp as u64, strategy_type is cloned
mutate_params(parent, mutation_rate, seed) ==
    [parent EXCEPT
        !.risk_tolerance = mutate_value(parent.risk_tolerance, mutation_rate, seed),
        !.trade_frequency = mutate_value(parent.trade_frequency, mutation_rate, AddU64(seed, 1)),
        !.profit_target = mutate_value(parent.profit_target, mutation_rate, AddU64(seed, 2)),
        !.stop_loss = mutate_value(parent.stop_loss, mutation_rate, AddU64(seed, 3))]

\* ------------------------------------------------------------ create_agent

\* faulty variant of CreateAgentAccounts: the account is initialised again
\* when it exists (init_if_needed)
CreateAgentAccounts_if_needed(ags, owner, name) ==
    IF Len(name) > MAX_NAME_LEN THEN "MaxSeedLengthExceeded"
    ELSE "Ok"

\* CreateAgent accounts (lib.rs:197-213): `init` of the PDA ["agent", owner, name]
\* fails when a seed is longer than 32 bytes or the account already exists.
\* The rent the payer deposits for the account is outside the ledger.
CreateAgentAccounts(ags, owner, name) ==
    IF Len(name) > MAX_NAME_LEN THEN "MaxSeedLengthExceeded"
    ELSE IF ags[AgentPda(owner, name)] # NoAgent THEN "AccountAlreadyInUse"
    ELSE "Ok"

\* lib.rs:18-32
NewAgent(id, owner, name, initial_params, t) ==
    [id |-> id,
     owner |-> owner,
     parent |-> None,
     generation |-> 1,
     name |-> name,
     params |-> initial_params,
     treasury |-> 0,
     total_earnings |-> 0,
     total_costs |-> 0,
     spawn_count |-> 0,
     service_count |-> 0,
     performance_score |-> 0,
     created_at |-> t,
     last_active |-> t,
     is_alive |-> TRUE]

\* ------------------------------------------------------------ fund_treasury

\* system_instruction::transfer invoked at lib.rs:43-54 and lib.rs:68-79: it
\* moves the lamports or fails; it fails when the payer does not have them.
TransferResult(amount, available) ==
    IF amount <= available THEN "Ok" ELSE "TransferFailed"

\* faulty variant of fund_treasury_err: the result of the transfer is dropped (no `?`)
fund_treasury_err_unchecked_transfer(ag, amount, transfer, oc) ==
    IF ag = NoAgent THEN "AccountNotInitialized"
    ELSE IF oc /\ AddOverflows(ag.treasury, amount) THEN "ArithmeticOverflow"
    ELSE "Ok"

\* lib.rs:39-59, preceded by the FundTreasury accounts (lib.rs:215-232)
fund_treasury_err(ag, amount, transfer, oc) ==
    IF ag = NoAgent THEN "AccountNotInitialized"
    ELSE IF transfer # "Ok" THEN transfer
    ELSE IF oc /\ AddOverflows(ag.treasury, amount) THEN "ArithmeticOverflow"
    ELSE "Ok"

\* lib.rs:56
fund_treasury_rec(ag, amount) ==
    [ag EXCEPT !.treasury = AddU64(@, amount)]

\* ------------------------------------------------------------ pay_for_service

\* lib.rs:62-88, preceded by the PayForService accounts (lib.rs:234-251)
pay_for_service_err(ag, amount, transfer, oc) ==
    IF ag = NoAgent THEN "AccountNotInitialized"
    ELSE IF ~ag.is_alive THEN "AgentDead"
    ELSE IF transfer # "Ok" THEN transfer
    ELSE IF oc /\ AddOverflows(ag.treasury, amount) THEN "ArithmeticOverflow"
    ELSE IF oc /\ AddOverflows(ag.total_earnings, amount) THEN "ArithmeticOverflow"
    ELSE "Ok"

\* lib.rs:81-84
pay_for_service_rec(ag, amount, t) ==
    [ag EXCEPT
        !.treasury = AddU64(@, amount),
        !.total_earnings = AddU64(@, amount),
        !.service_count = @ + 1,
        !.last_active = t]

\* ------------------------------------------------------------ deduct_costs

\* has_one = owner (lib.rs:255-258, 267-270, 306-309): the signer in the
\* `owner` slot must be the owner recorded in the agent
HasOneOwner(ag, signer) == ag.owner = signer

\* lib.rs:91-107, preceded by the DeductCosts accounts (lib.rs:253-262)
deduct_costs_err(ag, signer, amount, oc) ==
    IF ag = NoAgent THEN "AccountNotInitialized"
    ELSE IF ~HasOneOwner(ag, signer) THEN "ConstraintHasOne"
    ELSE IF ~ag.is_alive THEN "AgentDead"
    ELSE IF ~(ag.treasury >= amount) THEN "InsufficientTreasury"
    ELSE IF oc /\ AddOverflows(ag.total_costs, amount) THEN "ArithmeticOverflow"
    ELSE "Ok"

\* faulty variant of Depleted: the death of a depleted agent is never recorded
Depleted_never(treasury) == treasury < 0

\* lib.rs:100-104: the agent dies when the treasury is empty
Depleted(treasury) == treasury = 0

\* lib.rs:97-104
deduct_costs_rec(ag, amount) ==
    LET left == SubU64(ag.treasury, amount)
    IN  [ag EXCEPT
            !.treasury = left,
            !.total_costs = AddU64(@, amount),
            !.is_alive = IF Depleted(left) THEN FALSE ELSE @]

\* ------------------------------------------------------------ spawn

\* Spawn accounts (lib.rs:264-302).  parent_agent is loaded first; the `init`
\* of child_agent, the PDA ["agent", owner, child_name], runs next and fails for
\* a seed longer than 32 bytes or an account that exists; has_one = owner on
\* parent_agent is checked after it.  The two treasury PDAs are only addressed.
SpawnAccounts(ags, parent, signer, child_name) ==
    IF ags[parent] = NoAgent THEN "AccountNotInitialized"
    ELSE IF Len(child_name) > MAX_NAME_LEN THEN "MaxSeedLengthExceeded"
    ELSE IF ags[AgentPda(signer, child_name)] # NoAgent THEN "AccountAlreadyInUse"
    ELSE IF ~HasOneOwner(ags[parent], signer) THEN "ConstraintHasOne"
    ELSE "Ok"

\* lib.rs:121, the left-hand side being parent.treasury: the sum is computed
\* in u64
ReserveCheck(treasury, seed_amount) ==
    treasury >= AddU64(seed_amount, MIN_OPERATING_RESERVE)

\* lib.rs:120-122 and the arithmetic of lib.rs:121 and lib.rs:145
spawn_requires(p, seed_amount, oc) ==
    IF ~p.is_alive THEN "AgentDead"
    ELSE IF oc /\ AddOverflows(seed_amount, MIN_OPERATING_RESERVE) THEN "ArithmeticOverflow"
    ELSE IF ~ReserveCheck(p.treasury, seed_amount) THEN "InsufficientTreasury"
    ELSE IF ~(seed_amount >= MIN_SPAWN_SEED) THEN "InsufficientSpawnSeed"
    ELSE IF oc /\ SubOverflows(p.treasury, seed_amount) THEN "ArithmeticOverflow"
    ELSE "Ok"

\* lib.rs:110-150 with its accounts
spawn_err(ags, parent, signer, child_name, seed_amount, oc) ==
    LET accounts == SpawnAccounts(ags, parent, signer, child_name)
    IN  IF accounts # "Ok" THEN accounts
        ELSE spawn_requires(ags[parent], seed_amount, oc)

\* faulty variant of spawn_child: the child inherits the parent's generation
spawn_child_same_generation(p, id, signer, child_name, seed_amount, mutation_rate, t) ==
    [NewAgent(id, signer, child_name, mutate_params(p.params, mutation_rate, t), t)
        EXCEPT !.parent = Some(p.id),
               !.generation = p.generation,
               !.treasury = seed_amount]

\* lib.rs:125-142
spawn_child(p, id, signer, child_name, seed_amount, mutation_rate, t) ==
    [id |-> id,
     owner |-> signer,
     parent |-> Some(p.id),
     generation |-> p.generation + 1,
     name |-> child_name,
     params |-> mutate_params(p.params, mutation_rate, t),
     treasury |-> seed_amount,
     total_earnings |-> 0,
     total_costs |-> 0,
     spawn_count |-> 0,
     service_count |-> 0,
     performance_score |-> 0,
     created_at |-> t,
     last_active |-> t,
     is_alive |-> TRUE]

\* faulty variant of spawn_parent: the parent is debited and the spawn is not counted
spawn_parent_uncounted(p, seed_amount) ==
    [p EXCEPT !.treasury = SubU64(@, seed_amount)]

\* lib.rs:144-146
spawn_parent(p, seed_amount) ==
    [p EXCEPT
        !.treasury = SubU64(@, seed_amount),
        !.spawn_count = @ + 1]

\* ------------------------------------------------------------ record_outcome

\* lib.rs:153-163, preceded by the RecordOutcome accounts (lib.rs:304-313)
record_outcome_err(ag, signer, profit, oc) ==
    IF ag = NoAgent THEN "AccountNotInitialized"
    ELSE IF ~HasOneOwner(ag, signer) THEN "ConstraintHasOne"
    ELSE IF ~ag.is_alive THEN "AgentDead"
    ELSE IF oc /\ AddI64Overflows(ag.performance_score, profit) THEN "ArithmeticOverflow"
    ELSE "Ok"

\* lib.rs:158-159
record_outcome_rec(ag, profit, t) ==
    [ag EXCEPT
        !.performance_score = AddI64(@, profit),
        !.last_active = t]

\* ------------------------------------------------------------ inputs

\* amounts paid into a treasury
FundInputs == {MIN_SPAWN_SEED + MIN_OPERATING_RESERVE, U64Max}
PayInputs == {0, MIN_SPAWN_SEED, U64Max}

\* amounts debited from an agent: fixed ones and its own treasury
OwnTreasury(ag) == IF ag = NoAgent THEN {} ELSE {ag.treasury}
DeductInputs(ag) == {1, U64Max} \cup OwnTreasury(ag)
SeedInputs == {1, MIN_SPAWN_SEED, U64Max}

\* owners that found agents; every owner signs instructions
Founders == {"o1"}
\* names given to founded agents; spawned agents take any name
FoundingNames == {"a", "b", LongName}
\* the agent accounts that instructions are sent to
Targets == {AgentPda(o, n) : o \in Founders, n \in ShortNames}

ParamInputs ==
    {[risk_tolerance |-> 50, trade_frequency |-> 1, profit_target |-> 100,
      stop_loss |-> 99, strategy_type |-> 1]}

RateInputs == {2}

ProfitInputs == {I64Half - 1}

\* wallets that pay into treasuries; the program puts no condition on them
Payers == {"u1"}

\* ------------------------------------------------------------ the machine

\* What the last step was: a committed instruction with its arguments (amount
\* is the amount, seed_amount or profit; rate is the mutation_rate of a spawn),
\* or an aborted instruction with the error it returned.
Called(op, agent, signer, name, amount, rate, err) ==
    IF err = "Ok"
    THEN [op |-> op, agent |-> agent, signer |-> signer, name |-> name,
          amount |-> amount, rate |-> rate, err |-> err]
    ELSE [op |-> op, agent |-> NoId, signer |-> "", name |-> "",
          amount |-> 0, rate |-> 0, err |-> err]

Init ==
    /\ agents = [id \in Ids |-> NoAgent]
    /\ held = [id \in Ids |-> 0]
    /\ supply = TotalSupply
    /\ now = 0
    /\ overflow_checks \in BOOLEAN
    /\ nops = 0
    /\ last = Called("init", NoId, "", "", 0, 0, "Ok")

\* The transaction around an instruction: it commits the new accounts when
\* the instruction returns Ok and restores every account when it fails.  A
\* committed instruction uses up one unit of the exploration budget.  An
\* aborted instruction is explored as the last step of a run: it restored
\* every account, so what can follow it is what can follow the state before.
Commit(err, newAgents, newHeld, newSupply) ==
    /\ last.err = "Ok"
    /\ err = "Ok" => nops < MaxOps
    /\ agents' = IF err = "Ok" THEN newAgents ELSE agents
    /\ held' = IF err = "Ok" THEN newHeld ELSE held
    /\ supply' = IF err = "Ok" THEN newSupply ELSE supply
    /\ nops' = IF err = "Ok" THEN nops + 1 ELSE nops
    /\ UNCHANGED <<now, overflow_checks>>

Tick ==
    /\ last.err = "Ok"
    /\ now < MaxClock
    /\ now' = now + 1
    /\ last' = Called("tick", NoId, "", "", 0, 0, "Ok")
    /\ UNCHANGED <<agents, held, supply, overflow_checks, nops>>

CreateAgent ==
    \E owner \in Founders, name \in FoundingNames, initial_params \in ParamInputs :
        LET err == CreateAgentAccounts(agents, owner, name)
            id == AgentPda(owner, name)
        IN  /\ Commit(err,
                      [agents EXCEPT ![id] = NewAgent(id, owner, name, initial_params, now)],
                      held, supply)
            /\ last' = Called("create_agent", id, owner, name, 0, 0, err)

FundTreasury ==
    \E id \in Targets, funder \in Payers, amount \in FundInputs :
        LET transfer == TransferResult(amount, supply)
            err == fund_treasury_err(agents[id], amount, transfer, overflow_checks)
        IN  /\ Commit(err,
                      [agents EXCEPT ![id] = fund_treasury_rec(@, amount)],
                      [held EXCEPT ![id] = @ + amount],
                      supply - amount)
            /\ last' = Called("fund_treasury", id, funder, "", amount, 0, err)

PayForService ==
    \E id \in Targets, user \in Payers, amount \in PayInputs :
        LET transfer == TransferResult(amount, supply)
            err == pay_for_service_err(agents[id], amount, transfer, overflow_checks)
        IN  /\ Commit(err,
                      [agents EXCEPT ![id] = pay_for_service_rec(@, amount, now)],
                      [held EXCEPT ![id] = @ + amount],
                      supply - amount)
            /\ last' = Called("pay_for_service", id, user, "", amount, 0, err)

DeductCosts ==
    \E id \in Targets, signer \in Owners :
        \E amount \in DeductInputs(agents[id]) :
            LET err == deduct_costs_err(agents[id], signer, amount, overflow_checks)
            IN  /\ Commit(err,
                          [agents EXCEPT ![id] = deduct_costs_rec(@, amount)],
                          held, supply)
                /\ last' = Called("deduct_costs", id, signer, "", amount, 0, err)

\* one spawn instruction with its arguments
SpawnCall(parent, signer, child_name, seed_amount, mutation_rate) ==
    LET err == spawn_err(agents, parent, signer, child_name, seed_amount, overflow_checks)
        child == AgentPda(signer, child_name)
    IN  /\ Commit(err,
                  [agents EXCEPT
                      ![child] = spawn_child(agents[parent], child, signer, child_name,
                                             seed_amount, mutation_rate, now),
                      ![parent] = spawn_parent(agents[parent], seed_amount)],
                  held, supply)
        /\ last' = Called("spawn", parent, signer, child_name, seed_amount,
                         mutation_rate, err)

Spawn ==
    \E parent \in Targets, signer \in Owners, child_name \in Names, mutation_rate \in RateInputs :
        \E seed_amount \in SeedInputs :
            SpawnCall(parent, signer, child_name, seed_amount, mutation_rate)

RecordOutcome ==
    \E id \in Targets, signer \in Owners, profit \in ProfitInputs :
        LET err == record_outcome_err(agents[id], signer, profit, overflow_checks)
        IN  /\ Commit(err,
                      [agents EXCEPT ![id] = record_outcome_rec(@, profit, now)],
                      held, supply)
            /\ last' = Called("record_outcome", id, signer, "", profit, 0, err)

Next ==
    \/ Tick
    \/ CreateAgent
    \/ FundTreasury
    \/ PayForService
    \/ DeductCosts
    \/ Spawn
    \/ RecordOutcome

Spec == Init /\ [][Next]_vars

\* The ledger two instructions after Init: owner o1 has created agent "a"
\* with initial_params and a funder has paid
\* MIN_SPAWN_SEED + MIN_OPERATING_RESERVE into its treasury, at clock 0.
FundedLedger(initial_params) ==
    LET a == AgentPda("o1", "a")
        amount == MIN_SPAWN_SEED + MIN_OPERATING_RESERVE
    IN  /\ agents = [id \in Ids |->
                        IF id = a
                        THEN fund_treasury_rec(NewAgent(a, "o1", "a", initial_params, 0),
                                               amount)
                        ELSE NoAgent]
        /\ held = [id \in Ids |-> IF id = a THEN amount ELSE 0]
        /\ supply = TotalSupply - amount
        /\ nops = 0
        /\ last = Called("fund_treasury", a, "u1", "", amount, 0, "Ok")

\* The same program started from that ledger: the exploration budget covers
\* runs two instructions longer.
InitFunded ==
    /\ \E initial_params \in ParamInputs : FundedLedger(initial_params)
    /\ now = 0
    /\ overflow_checks \in BOOLEAN

SpecFunded == InitFunded /\ [][Next]_vars

\* ------------------------------------------------------------ mutation alone

\* every value of a u8 trait and of mutation_rate (lib.rs:114, lib.rs:345-348)
TraitValues == 0 .. U8Max
MutationRates == 0 .. U8Max

\* A parameter vector for each trait value: the four traits take four
\* different values, and each takes every value of u8 as v runs over them.
TraitVector(v) ==
    [risk_tolerance |-> v,
     trade_frequency |-> (v + 64) % (U8Max + 1),
     profit_target |-> (v + 128) % (U8Max + 1),
     stop_loss |-> (v + 192) % (U8Max + 1),
     strategy_type |-> 1]

\* Clock values at the spawn, the seed of the mutation (lib.rs:179-180):
\* 0, twice a rate (the remainder of lib.rs:191 is then largest for that
\* rate and 0 for the next seed), and the largest seed, where wrapping_add wraps.
MutationClocks == {0, 2 * 100, 2 * U8Max, U64Max}

\* mutate_params applied to every trait value, rate and one of these seeds:
\* agent "a" holds the parameter vector and its owner spawns one child from it.
InitMutate ==
    /\ \E v \in TraitValues : FundedLedger(TraitVector(v))
    /\ now \in MutationClocks
    /\ overflow_checks \in BOOLEAN

\* the one spawn of a run: the child "b" does not exist yet
SpawnAnyRate ==
    /\ agents[AgentPda("o1", "b")] = NoAgent
    /\ \E mutation_rate \in MutationRates :
           SpawnCall(AgentPda("o1", "a"), "o1", "b", MIN_SPAWN_SEED, mutation_rate)

NextMutate == SpawnAnyRate

SpecMutate == InitMutate /\ [][NextMutate]_vars

\* ------------------------------------------------------------ vocabulary of the claims

Exists(id) == agents[id] # NoAgent
Alive(id) == Exists(id) /\ agents[id].is_alive
Dead(id) == Exists(id) /\ ~agents[id].is_alive

\* the step commits the instruction op
Commits(op) == last'.err = "Ok" /\ nops' = nops + 1 /\ last'.op = op
\* the step is an instruction that aborted
Aborts == last'.err # "Ok"

\* the child account of the spawn recorded in a descriptor
ChildOf(call) == AgentPda(call.signer, call.name)

\* names under which the owner of parent can initialise a child account
FreshNames(owner) ==
    {n \in Names : Len(n) <= MAX_NAME_LEN /\ agents[AgentPda(owner, n)] = NoAgent}

\* ------------------------------------------------------------ C1

\* C1 (as claimed): death is terminal.  Once an agent's is_alive is false it
\* is never true again, and every pay_for_service, deduct_costs, spawn (with
\* it as parent) and record_outcome on it, called by its owner, returns
\* AgentDead; an aborted instruction changes no account.
C1_DeathIsTerminal ==
    [][/\ \A id \in Ids : Dead(id) => Dead(id)'
       /\ \A id \in Targets : Dead(id) =>
            LET ag == agents[id]
            IN  /\ \A amount \in PayInputs :
                    pay_for_service_err(ag, amount, TransferResult(amount, supply),
                                        overflow_checks) = "AgentDead"
                /\ \A amount \in DeductInputs(ag) :
                    deduct_costs_err(ag, ag.owner, amount, overflow_checks) = "AgentDead"
                /\ \A profit \in ProfitInputs :
                    record_outcome_err(ag, ag.owner, profit, overflow_checks) = "AgentDead"
                /\ \A child_name \in Names, seed_amount \in SeedInputs :
                    spawn_err(agents, id, ag.owner, child_name, seed_amount,
                              overflow_checks) = "AgentDead"
       /\ Aborts => UNCHANGED <<agents, held, supply>>]_vars

\* The part of C1 the program keeps: a dead agent stays dead, every such call
\* by the owner aborts, with AgentDead whenever the accounts of the instruction
\* validate (for spawn: a child name of at most 32 bytes that the owner has not
\* used), and an aborted instruction changes no account.
DeadStaysDead ==
    [][/\ \A id \in Ids : Dead(id) => Dead(id)'
       /\ \A id \in Targets : Dead(id) =>
            LET ag == agents[id]
            IN  /\ \A amount \in PayInputs :
                    pay_for_service_err(ag, amount, TransferResult(amount, supply),
                                        overflow_checks) = "AgentDead"
                /\ \A amount \in DeductInputs(ag) :
                    deduct_costs_err(ag, ag.owner, amount, overflow_checks) = "AgentDead"
                /\ \A profit \in ProfitInputs :
                    record_outcome_err(ag, ag.owner, profit, overflow_checks) = "AgentDead"
                /\ \A child_name \in Names, seed_amount \in SeedInputs :
                    LET err == spawn_err(agents, id, ag.owner, child_name, seed_amount,
                                         overflow_checks)
                    IN  /\ err # "Ok"
                        /\ child_name \in FreshNames(ag.owner) => err = "AgentDead"
       /\ Aborts => UNCHANGED <<agents, held, supply>>]_vars

\* ------------------------------------------------------------ C2

\* C2 (as claimed): every committed debit (deduct_costs amount, spawn
\* seed_amount) is at most the treasury before it, and the treasury after it
\* is the treasury before it minus the debit.
C2_DebitWithinTreasury ==
    [][(Commits("deduct_costs") \/ Commits("spawn")) =>
          LET id == last'.agent
              debit == last'.amount
          IN  /\ debit <= agents[id].treasury
              /\ agents'[id].treasury = agents[id].treasury - debit]_vars

\* ------------------------------------------------------------ C3

\* C3: depletion triggers death.  A committed deduct_costs(T) on an agent with
\* treasury T leaves treasury = 0 and is_alive = false in the same step (T = 0
\* included); a committed deduct_costs(a) with a < T leaves is_alive = true.
C3_DepletionTriggersDeath ==
    [][Commits("deduct_costs") =>
          LET id == last'.agent
              amount == last'.amount
              T == agents[id].treasury
          IN  /\ agents[id].is_alive
              /\ amount = T => agents'[id].treasury = 0 /\ ~agents'[id].is_alive
              /\ amount < T => agents'[id].is_alive]_vars

\* a funded agent has just been drained to zero and is dead
C3_Witness ==
    /\ last.op = "deduct_costs" /\ last.err = "Ok"
    /\ last.amount > 0
    /\ agents[last.agent].total_costs = last.amount
    /\ agents[last.agent].treasury = 0
    /\ ~agents[last.agent].is_alive

\* ------------------------------------------------------------ C4

\* C4 (as claimed): spawn conservation.  After a committed spawn with seed S
\* from a parent with treasury T the parent holds T - S, the child holds S,
\* the two add up to T, and no other agent's treasury changes.
C4_SpawnConservation ==
    [][Commits("spawn") =>
          LET p == last'.agent
              c == ChildOf(last')
              S == last'.amount
              T == agents[p].treasury
          IN  /\ agents'[p].treasury = T - S
              /\ agents'[c].treasury = S
              /\ agents'[p].treasury + agents'[c].treasury = T
              /\ \A id \in Ids \ {p, c} : agents'[id] = agents[id]]_vars

\* ------------------------------------------------------------ C5

\* C5 (as claimed, for a child account that can be initialised): spawn
\* reserve enforcement.  For a living parent with treasury T, called by its
\* owner, spawn returns InsufficientTreasury for every seed S with
\* T < S + MIN_OPERATING_RESERVE, and no spawn with such a seed commits.
C5_ReserveEnforcement ==
    [][/\ \A p \in Targets : Alive(p) =>
            \A child_name \in FreshNames(agents[p].owner), S \in SeedInputs :
                agents[p].treasury < S + MIN_OPERATING_RESERVE =>
                    spawn_err(agents, p, agents[p].owner, child_name, S,
                              overflow_checks) = "InsufficientTreasury"
       /\ Commits("spawn") =>
            ~(agents[last'.agent].treasury < last'.amount + MIN_OPERATING_RESERVE)]_vars

\* ------------------------------------------------------------ C6

\* C6 (as claimed): a spawn never kills its parent.  After every committed
\* spawn the parent's treasury is at least MIN_OPERATING_RESERVE and the
\* parent is alive.
C6_SpawnKeepsReserve ==
    [][Commits("spawn") =>
          /\ agents'[last'.agent].treasury >= MIN_OPERATING_RESERVE
          /\ agents'[last'.agent].is_alive]_vars

\* ------------------------------------------------------------ C7

\* C7 (as claimed): only the owner can drain or reproduce an agent.
\* deduct_costs, spawn and record_outcome signed by another than the owner
\* abort and change no account; an agent's treasury decreases, its is_alive
\* becomes false, its spawn_count grows or its performance_score changes only
\* in committed steps signed by its owner.
C7_OnlyOwnerDrains ==
    [][/\ \A id \in Targets, signer \in Owners :
            (Exists(id) /\ signer # agents[id].owner) =>
                /\ \A amount \in DeductInputs(agents[id]) :
                     deduct_costs_err(agents[id], signer, amount, overflow_checks) # "Ok"
                /\ \A profit \in ProfitInputs :
                     record_outcome_err(agents[id], signer, profit, overflow_checks) # "Ok"
                /\ \A child_name \in Names, S \in SeedInputs :
                     spawn_err(agents, id, signer, child_name, S, overflow_checks) # "Ok"
       /\ Aborts => UNCHANGED <<agents, held, supply>>
       /\ \A id \in Ids :
            (/\ Exists(id)
             /\ \/ agents'[id].treasury < agents[id].treasury
                \/ agents[id].is_alive /\ ~agents'[id].is_alive
                \/ agents'[id].spawn_count > agents[id].spawn_count
                \/ agents'[id].performance_score # agents[id].performance_score)
            => last'.err = "Ok" /\ last'.signer = agents[id].owner]_vars

\* ------------------------------------------------------------ C8

\* the agent records whose parent field references id
ChildrenOf(id) == {c \in Ids : Exists(c) /\ agents[c].parent = Some(id)}

\* C8: spawn is one atomic unit.  In every reachable state each agent's
\* spawn_count is the number of agent records whose parent references it.
C8_SpawnAtomic ==
    \A id \in Ids : Exists(id) => agents[id].spawn_count = Cardinality(ChildrenOf(id))

\* a parent has been debited for a seed and its child exists
C8_Witness ==
    /\ last.op = "spawn" /\ last.err = "Ok"
    /\ agents[last.agent].spawn_count = 1
    /\ ChildrenOf(last.agent) = {ChildOf(last)}
    /\ agents[ChildOf(last)].treasury = last.amount

\* ------------------------------------------------------------ C9

\* C9: no partial effect on failure.  An instruction that returns an error
\* leaves every account as it was; fund_treasury and pay_for_service return
\* an error when the transfer fails, and when they commit, the lamports have
\* moved into the agent's treasury account.
C9_NoPartialEffect ==
    [][/\ Aborts => UNCHANGED <<agents, held, supply>>
       /\ \A id \in Targets : Exists(id) =>
            /\ \A amount \in FundInputs :
                 TransferResult(amount, supply) # "Ok" =>
                    fund_treasury_err(agents[id], amount, TransferResult(amount, supply),
                                      overflow_checks) # "Ok"
            /\ \A amount \in PayInputs :
                 TransferResult(amount, supply) # "Ok" =>
                    pay_for_service_err(agents[id], amount, TransferResult(amount, supply),
                                        overflow_checks) # "Ok"
       /\ (Commits("fund_treasury") \/ Commits("pay_for_service")) =>
            /\ last'.amount <= supply
            /\ held'[last'.agent] = held[last'.agent] + last'.amount
            /\ supply' = supply - last'.amount]_vars

\* a transfer has failed on an agent that holds value
C9_Witness ==
    /\ last.err = "TransferFailed"
    /\ last.op \in {"fund_treasury", "pay_for_service"}
    /\ \E id \in Ids : Exists(id) /\ agents[id].treasury > 0

\* ------------------------------------------------------------ C10

\* the genealogy of the records of a state
Genealogy ==
    \A id \in Ids : Exists(id) =>
        LET ag == agents[id]
        IN  /\ ag.generation >= 1
            /\ ag.parent = None => ag.generation = 1
            /\ ag.parent # None =>
                 LET p == ag.parent[1]
                 IN  /\ p \in Ids /\ Exists(p) /\ p # id
                     /\ ag.generation = agents[p].generation + 1
                     /\ ag.created_at >= agents[p].created_at

\* C10: genealogy invariant.  Every agent has generation >= 1; an agent has
\* parent = None exactly when create_agent made it, and then generation 1; an
\* agent made by spawn references a parent that existed before it, has the
\* parent's generation + 1 and a created_at not before the parent's.
C10_Genealogy ==
    [][/\ Genealogy /\ Genealogy'
       /\ \A id \in Ids : (~Exists(id) /\ Exists(id)') =>
            \/ /\ Commits("create_agent") /\ last'.agent = id
               /\ agents'[id].parent = None /\ agents'[id].generation = 1
            \/ /\ Commits("spawn") /\ ChildOf(last') = id
               /\ Exists(last'.agent)
               /\ agents'[id].parent = Some(last'.agent)
               /\ agents'[id].generation = agents[last'.agent].generation + 1
               /\ agents'[id].created_at >= agents[last'.agent].created_at
       /\ \A id \in Ids : Exists(id) =>
            /\ Exists(id)'
            /\ agents'[id].parent = agents[id].parent
            /\ agents'[id].generation = agents[id].generation
            /\ agents'[id].created_at = agents[id].created_at]_vars

\* a child of the second generation, created later than its parent
C10_Witness ==
    /\ last.op = "spawn" /\ last.err = "Ok"
    /\ agents[ChildOf(last)].parent = Some(last.agent)
    /\ agents[ChildOf(last)].generation = 2
    /\ agents[last.agent].parent = None
    /\ agents[ChildOf(last)].created_at > agents[last.agent].created_at

\* ------------------------------------------------------------ C11

\* C11 (as claimed): minimum seed.  For a living parent whose treasury covers
\* seed_amount + MIN_OPERATING_RESERVE, a spawn by its owner with
\* seed_amount < MIN_SPAWN_SEED returns InsufficientSpawnSeed; an aborted
\* instruction changes no account; every agent created by a spawn starts with
\* treasury >= MIN_SPAWN_SEED.
C11_MinimumSeed ==
    [][/\ \A p \in Targets : Alive(p) =>
            \A child_name \in Names, S \in SeedInputs :
                (S < MIN_SPAWN_SEED /\ agents[p].treasury >= S + MIN_OPERATING_RESERVE) =>
                    spawn_err(agents, p, agents[p].owner, child_name, S,
                              overflow_checks) = "InsufficientSpawnSeed"
       /\ Aborts => UNCHANGED <<agents, held, supply>>
       /\ Commits("spawn") => agents'[ChildOf(last')].treasury >= MIN_SPAWN_SEED]_vars

\* The part of C11 the program keeps: such a spawn aborts, with
\* InsufficientSpawnSeed whenever the accounts of the instruction validate,
\* and every spawned agent starts with at least MIN_SPAWN_SEED.
MinimumSeedKept ==
    [][/\ \A p \in Targets : Alive(p) =>
            \A child_name \in Names, S \in SeedInputs :
                (S < MIN_SPAWN_SEED /\ agents[p].treasury >= S + MIN_OPERATING_RESERVE) =>
                    LET err == spawn_err(agents, p, agents[p].owner, child_name, S,
                                         overflow_checks)
                    IN  /\ err # "Ok"
                        /\ child_name \in FreshNames(agents[p].owner) =>
                             err = "InsufficientSpawnSeed"
       /\ Aborts => UNCHANGED <<agents, held, supply>>
       /\ Commits("spawn") => agents'[ChildOf(last')].treasury >= MIN_SPAWN_SEED]_vars

\* ------------------------------------------------------------ C12

\* C12 (as claimed): lifetime counters are monotone.  From one state to the
\* next no agent's total_earnings, total_costs, spawn_count or service_count
\* decreases.
C12_CountersMonotone ==
    [][\A id \in Ids : Exists(id) =>
          /\ Exists(id)'
          /\ agents'[id].total_earnings >= agents[id].total_earnings
          /\ agents'[id].total_costs >= agents[id].total_costs
          /\ agents'[id].spawn_count >= agents[id].spawn_count
          /\ agents'[id].service_count >= agents[id].service_count]_vars

\* ------------------------------------------------------------ C13

\* what C13 says of a mutated trait w, the parent's trait v and the rate r
WithinMutationRange(v, r, w) ==
    /\ Clamp(v - r, 1, 100) <= w /\ w <= Clamp(v + r, 1, 100)
    /\ w \in 1 .. 100
    /\ (r = 0 /\ v \in 1 .. 100) => w = v

\* seeds that give the rate r its mutations -r, 0 and +r, and the largest seed
ExtremeSeeds(r) == {0, r, 2 * r, U64Max}

\* C13: mutation range.  After a committed spawn with mutation rate r, each of
\* the four mutated traits of the child lies between clamp(v - r, 1, 100) and
\* clamp(v + r, 1, 100), v being the parent's trait (any u8, as is r), and so
\* in 1..100; with r = 0 a parent trait in 1..100 is inherited unchanged; no
\* cast or i16 operation of the mutation overflows.  The same holds of
\* mutate_value for these v and r at the seeds of the extreme mutations.
C13_MutationRange ==
    (last.op = "spawn" /\ last.err = "Ok") =>
        LET p == agents[last.agent].params
            c == agents[ChildOf(last)].params
            r == last.rate
            seed == agents[ChildOf(last)].created_at
        IN  /\ \A k \in 1 .. Len(Traits) :
                 WithinMutationRange(p[Traits[k]], r, c[Traits[k]])
            /\ ~mutate_params_overflows(p, r, seed)
            /\ \A k \in 1 .. Len(Traits), s \in ExtremeSeeds(r) :
                 /\ WithinMutationRange(p[Traits[k]], r, mutate_value(p[Traits[k]], r, s))
                 /\ ~mutate_value_overflows(p[Traits[k]], r, s)

\* a spawn with the largest rate has moved one trait of the parent up to 100
\* and another down to 1
C13_Witness ==
    /\ last.op = "spawn" /\ last.err = "Ok"
    /\ last.rate = U8Max
    /\ agents[last.agent].params.risk_tolerance \in 2 .. 99
    /\ agents[ChildOf(last)].params.risk_tolerance = 100
    /\ agents[last.agent].params.trade_frequency \in 2 .. 99
    /\ agents[ChildOf(last)].params.trade_frequency = 1

\* ------------------------------------------------------------ C14

\* C14 (as claimed): funding ignores liveness and does not revive.
\* fund_treasury returns Ok on every agent, dead or alive, when the transfer
\* succeeds; a committed fund_treasury(amount) increases the agent's treasury
\* by exactly amount and changes no other field of any record, is_alive
\* included.
C14_FundingIgnoresLiveness ==
    [][/\ \A id \in Targets, amount \in FundInputs :
            (Exists(id) /\ TransferResult(amount, supply) = "Ok") =>
                fund_treasury_err(agents[id], amount, TransferResult(amount, supply),
                                  overflow_checks) = "Ok"
       /\ Commits("fund_treasury") =>
            agents' = [agents EXCEPT
                          ![last'.agent].treasury = agents[last'.agent].treasury + last'.amount]]_vars

\* The part of C14 about dead agents, which the program keeps: fund_treasury
\* returns Ok on a dead agent when the transfer succeeds, adds exactly amount
\* to its treasury and leaves it dead, every other field unchanged.
FundingDoesNotRevive ==
    [][/\ \A id \in Targets, amount \in FundInputs :
            (Dead(id) /\ TransferResult(amount, supply) = "Ok") =>
                fund_treasury_err(agents[id], amount, TransferResult(amount, supply),
                                  overflow_checks) = "Ok"
       /\ (Commits("fund_treasury") /\ Dead(last'.agent)) =>
            agents' = [agents EXCEPT
                          ![last'.agent].treasury = agents[last'.agent].treasury + last'.amount]
       /\ Commits("fund_treasury") =>
            agents'[last'.agent].is_alive = agents[last'.agent].is_alive]_vars

\* ------------------------------------------------------------ C15

\* C15 (as claimed): recording earnings.  A committed pay_for_service(amount)
\* acts on a living agent, increases its treasury and total_earnings by
\* exactly amount and its service_count by exactly 1, sets its last_active to
\* the clock, and changes nothing else; so does amount = 0.
C15_RecordingEarnings ==
    [][Commits("pay_for_service") =>
          LET id == last'.agent
              amount == last'.amount
          IN  /\ agents[id].is_alive
              /\ agents' = [agents EXCEPT
                               ![id].treasury = agents[id].treasury + amount,
                               ![id].total_earnings = agents[id].total_earnings + amount,
                               ![id].service_count = agents[id].service_count + 1,
                               ![id].last_active = now]]_vars

\* The part of C15 the program keeps in both builds: everything but the
\* treasury of an agent whose recorded treasury exceeds what was paid in.
EarningsCounted ==
    [][Commits("pay_for_service") =>
          LET id == last'.agent
              amount == last'.amount
          IN  /\ agents[id].is_alive
              /\ agents' = [agents EXCEPT
                               ![id].treasury = agents'[id].treasury,
                               ![id].total_earnings = agents[id].total_earnings + amount,
                               ![id].service_count = agents[id].service_count + 1,
                               ![id].last_active = now]
              /\ agents[id].treasury <= TotalSupply =>
                   agents'[id].treasury = agents[id].treasury + amount]_vars

\* ------------------------------------------------------------ C16

\* C16 (as claimed): the preconditions of spawn are checked in the order
\* authorization, parent alive, treasury >= seed + reserve,
\* seed >= MIN_SPAWN_SEED, child name within its bound, and the first that
\* fails gives the error.  A signer who is not the owner gets the
\* authorization error whatever else is wrong; the owner of a dead parent gets
\* AgentDead; a call that fails both the treasury and the seed check gets
\* InsufficientTreasury; an over-long child name is reported only when the
\* four earlier checks pass.
C16_SpawnCheckOrder ==
    \A p \in Targets, signer \in Owners, child_name \in Names, S \in SeedInputs :
        Exists(p) =>
            LET ag == agents[p]
                err == spawn_err(agents, p, signer, child_name, S, overflow_checks)
            IN  /\ signer # ag.owner => err = "ConstraintHasOne"
                /\ (signer = ag.owner /\ ~ag.is_alive) => err = "AgentDead"
                /\ (/\ signer = ag.owner /\ ag.is_alive
                    /\ ag.treasury < S + MIN_OPERATING_RESERVE
                    /\ S < MIN_SPAWN_SEED) => err = "InsufficientTreasury"
                /\ err = "MaxSeedLengthExceeded" =>
                     /\ signer = ag.owner /\ ag.is_alive
                     /\ ag.treasury >= S + MIN_OPERATING_RESERVE
                     /\ S >= MIN_SPAWN_SEED

\* The order the program keeps: when the child account can be initialised by
\* the signer, the authorization error comes first, then AgentDead, then
\* InsufficientTreasury before InsufficientSpawnSeed.
HandlerCheckOrder ==
    \A p \in Targets, signer \in Owners, S \in SeedInputs :
        Exists(p) =>
            \A child_name \in FreshNames(signer) :
                LET ag == agents[p]
                    err == spawn_err(agents, p, signer, child_name, S, overflow_checks)
                IN  /\ signer # ag.owner => err = "ConstraintHasOne"
                    /\ (signer = ag.owner /\ ~ag.is_alive) => err = "AgentDead"
                    /\ (/\ signer = ag.owner /\ ag.is_alive
                        /\ ag.treasury < S + MIN_OPERATING_RESERVE
                        /\ S < MIN_SPAWN_SEED) => err = "InsufficientTreasury"

\* ------------------------------------------------------------ C17

\* C17 (as claimed): last_active follows every operation on the treasury or
\* the activity.  After a committed fund_treasury, pay_for_service,
\* deduct_costs or record_outcome the agent's last_active is the clock of the
\* operation, and after a committed spawn so is the parent's.
C17_LastActiveUpdated ==
    [][(\/ Commits("fund_treasury") \/ Commits("pay_for_service")
        \/ Commits("deduct_costs") \/ Commits("record_outcome")
        \/ Commits("spawn")) =>
          agents'[last'.agent].last_active = now]_vars

\* What the program keeps of C17: pay_for_service and record_outcome set
\* last_active to the clock, a spawned child starts with it, and
\* fund_treasury, deduct_costs and spawn leave the agent's (the parent's)
\* last_active as it was.
LastActiveKept ==
    [][/\ (Commits("pay_for_service") \/ Commits("record_outcome")) =>
             agents'[last'.agent].last_active = now
       /\ Commits("spawn") => agents'[ChildOf(last')].last_active = now
       /\ (\/ Commits("fund_treasury") \/ Commits("deduct_costs")
           \/ Commits("spawn")) =>
             agents'[last'.agent].last_active = agents[last'.agent].last_active]_vars

\* ------------------------------------------------------------ C18

\* the recorded treasury of an address, 0 while it holds no agent
TreasuryIn(ags, id) == IF ags[id] # NoAgent THEN ags[id].treasury ELSE 0

\* C18 (as claimed): no value is created from nothing.  Step by step, which
\* gives the claimed sums by induction: a committed fund_treasury or
\* pay_for_service adds exactly amount to one treasury, a committed
\* deduct_costs removes exactly amount from one, a committed spawn moves
\* exactly the seed from the parent to the child (their sum is unchanged), a
\* new agent starts with 0, and no step changes any other treasury;
\* total_earnings and total_costs count exactly the amounts earned and deducted.
C18_NoValueFromNothing ==
    [][LET id == last'.agent
           amount == last'.amount
           Others(S) == \A o \in Ids \ S : TreasuryIn(agents', o) = TreasuryIn(agents, o)
       IN  /\ (Commits("fund_treasury") \/ Commits("pay_for_service")) =>
                 TreasuryIn(agents', id) = TreasuryIn(agents, id) + amount /\ Others({id})
           /\ Commits("pay_for_service") =>
                 agents'[id].total_earnings = agents[id].total_earnings + amount
           /\ Commits("deduct_costs") =>
                 /\ TreasuryIn(agents', id) = TreasuryIn(agents, id) - amount /\ Others({id})
                 /\ agents'[id].total_costs = agents[id].total_costs + amount
           /\ Commits("spawn") =>
                 /\ TreasuryIn(agents', ChildOf(last')) = amount
                 /\ TreasuryIn(agents', id) = TreasuryIn(agents, id) - amount
                 /\ TreasuryIn(agents', id) + TreasuryIn(agents', ChildOf(last'))
                      = TreasuryIn(agents, id) + TreasuryIn(agents, ChildOf(last'))
                 /\ Others({id, ChildOf(last')})
           /\ Commits("create_agent") => Others({})
           /\ Commits("record_outcome") => Others({})
           /\ (Aborts \/ last'.op = "tick") => Others({})]_vars

\* ------------------------------------------------------------ C19

\* C19: an existing agent record is never initialised again.  While an agent
\* exists for a pair (owner, name), create_agent for that pair and every spawn
\* of a child with that owner and name fail, in the validation of their
\* accounts, whatever the other arguments; no committed create_agent or
\* spawn creates a record at an address that held one, or changes another
\* record than the new one and the spawn's parent; every record sits at the
\* address of its own (owner, name), so no two share a pair; and no step
\* removes a record, revives a dead agent or changes a parent or generation.
C19_NeverReinitialised ==
    [][\A id \in Ids : Exists(id) =>
            /\ CreateAgentAccounts(agents, agents[id].owner, agents[id].name) # "Ok"
            /\ \A p \in Targets :
                 SpawnAccounts(agents, p, agents[id].owner, agents[id].name) # "Ok"
            /\ agents[id].id = id
            /\ AgentPda(agents[id].owner, agents[id].name) = id
            /\ ~(Commits("create_agent") /\ last'.agent = id)
            /\ ~(Commits("spawn") /\ ChildOf(last') = id)
            /\ ((Commits("create_agent") \/ Commits("spawn")) /\ last'.agent # id) =>
                 agents'[id] = agents[id]
            /\ Exists(id)'
            /\ ~agents[id].is_alive => ~agents'[id].is_alive
            /\ agents'[id].parent = agents[id].parent
            /\ agents'[id].generation = agents[id].generation
            /\ agents'[id].owner = agents[id].owner
            /\ agents'[id].name = agents[id].name]_vars

\* create_agent has just failed on the name of the only agent there is, which
\* is dead and has a history
C19_Witness ==
    /\ last.op = "create_agent" /\ last.err = "AccountAlreadyInUse"
    /\ Cardinality({id \in Ids : Exists(id)}) = 1
    /\ \E id \in Ids : Dead(id) /\ agents[id].total_costs > 0

\* ------------------------------------------------------------ C20

\* C20 (as claimed): the recorded treasury is backed by held value.  In every
\* state the treasury field of each agent is at most the lamports that
\* transfers moved into its treasury account; after a committed spawn with
\* seed S the child's treasury account holds at least S.
C20_TreasuryBacked ==
    /\ \A id \in Ids : Exists(id) => agents[id].treasury <= held[id]
    /\ (last.op = "spawn" /\ last.err = "Ok") => held[ChildOf(last)] >= last.amount

\* What the program keeps of C20: the lamports held by a treasury account
\* are those paid in by fund_treasury and pay_for_service, they never leave
\* it, and together with the lamports outside they are all there are; spawn
\* and deduct_costs move none.
LamportsKept ==
    [][/\ \A id \in Ids : held'[id] >= held[id]
       /\ (Commits("spawn") \/ Commits("deduct_costs")) => UNCHANGED <<held, supply>>]_vars

====
